---- MODULE Spec2Model ----
(***************************************************************************)
(* State-machine model of the API gateway router                           *)
(* (api-gateway/presentation/api/routers/gateway.py): the four wildcard    *)
(* proxies, the composite upload endpoint /api/ifc/parse, and the generic  *)
(* route / aggregate endpoints built on the orchestration service.         *)
(* One inbound request is handled at a time; every await of a downstream   *)
(* call is a step boundary, and the downstream's answer is an input.       *)
(***************************************************************************)
EXTENDS Integers, Sequences, FiniteSets, TLC

VARIABLES
    pc,         \* position of the handling task
    req,        \* the inbound request being handled
    calls,      \* outbound Transport calls issued for this request, in order
    down,       \* what the downstream answered to the awaited call
    resp,       \* the gateway's response to the inbound request
    parsed,     \* parse_ifc: locals kept across the cost call
    outcome,    \* route / aggregate: the Outcome the orchestration service returned
    tasks,      \* aggregate: per-request Outcome (or pending), by input index
    completed,  \* aggregate: indexes in the order their dispatch completed
    projects,   \* database manager service: ProjectService._projects
    comments,   \* database manager service: ProjectService._comments
    views,      \* 3D data service: VisualizationService._views
    pins,       \* 3D data service: VisualizationService._pins
    selections, \* 3D data service: VisualizationService._selections
    measurements, \* calculation engine: CalculationService._measurements
    served,     \* the last service operation: its arguments and what it returned
    container,  \* a router module's global _container
    created,    \* the Containers constructed in the process, in order
    workers,    \* threads running get_container: position and local value
    matched     \* the inbound method and path being routed, and the gateway route that handles them

\* the handling of one inbound request by the gateway
gateway == <<pc, req, calls, down, resp, parsed, outcome, tasks, completed>>

\* the stores of the downstream services, which no gateway handler writes,
\* with what their last operation returned
services == <<projects, comments, views, pins, selections, measurements, served>>

\* the Container singleton of a process and the threads asking for it
singleton == <<container, created, workers>>

vars == <<pc, req, calls, down, resp, parsed, outcome, tasks, completed,
          projects, comments, views, pins, selections, measurements, served,
          container, created, workers, matched>>

-----------------------------------------------------------------------------
(* Bounds of the model *)

MaxQuery == 2       \* inbound query string: at most this many key=value pairs
MaxElements == 2    \* parse answer: at most this many elements in the list
MaxAggregate == 2   \* aggregate: at most this many route requests in one call

-----------------------------------------------------------------------------
(* JSON texts and values.  A value is written by its canonical text; None  *)
(* is Python's None (JSON null).                                            *)

None == "None"

\* the projects of the database manager service, as stored and as JSON text
\* (created_at, a timestamp, and description are left out)
ProjectIds == {"p1", "p2"}
ProjectNames == {"A", "B"}
ProjectRecords == [project_id : ProjectIds, name : ProjectNames]
ProjectJson(p) ==
    "{\"project_id\":\"" \o p.project_id \o "\",\"name\":\"" \o p.name \o "\"}"
ProjectTexts == {ProjectJson(p) : p \in ProjectRecords}

\* the body of an HTTPException with a string detail
DetailJson(detail) == "{\"detail\":\"" \o detail \o "\"}"
ProjectNotFound(project_id) == "Project " \o project_id \o " not found"
ProjectNotFoundTexts == {DetailJson(ProjectNotFound(id)) : id \in ProjectIds}

\* json.loads / Response.json(): text -> value, or a decode error
JsonLoads(text) ==
    CASE text = "null"              -> [ok |-> TRUE,  value |-> None]
      [] text \in ProjectTexts \cup ProjectNotFoundTexts
                                    -> [ok |-> TRUE,  value |-> text]
      [] text = "{\"pin\":1}"       -> [ok |-> TRUE,  value |-> "{\"pin\":1}"]
      [] text = " {\"pin\": 1}\n"   -> [ok |-> TRUE,  value |-> "{\"pin\":1}"]
      [] text = "[]"                -> [ok |-> TRUE,  value |-> "[]"]
      [] text = "{\"total\":1}"     -> [ok |-> TRUE,  value |-> "{\"total\":1}"]
      [] OTHER                      -> [ok |-> FALSE, value |-> None]

InboundBodies == {"", "{", "null", "{\"pin\":1}", " {\"pin\": 1}\n"}
DownstreamTexts == {"", "<html>", "[]", " {\"pin\": 1}\n"}

-----------------------------------------------------------------------------
(* Inbound request parts *)

Methods == {"GET", "POST", "PUT", "DELETE", "PATCH"}
Families == {"visualization", "projects", "calculations", "ifc"}

QueryKeys == {"a", "b"}
QueryVals == {"1", "2"}
QueryPair == QueryKeys \X QueryVals
QueryStrings == UNION {[1..n -> QueryPair] : n \in 0..MaxQuery}

\* dict(request.query_params): one value per key, the last occurrence wins
RECURSIVE QueryDict(_)
QueryDict(qs) ==
    IF qs = <<>> THEN {}
    ELSE LET init == QueryDict(SubSeq(qs, 1, Len(qs) - 1))
             last == qs[Len(qs)]
         IN  {p \in init : p[1] # last[1]} \cup {last}

\* ProxyBody with an undecodable inbound body replaced by an empty object
ProxyBody_EmptyObjectOnError(method, body_bytes) ==
    IF method \in {"POST", "PUT", "PATCH"}
    THEN IF body_bytes # ""
         THEN IF JsonLoads(body_bytes).ok THEN JsonLoads(body_bytes).value ELSE "{}"
         ELSE None
    ELSE None

\* "body = None; if method in [POST, PUT, PATCH]: try json.loads(body_bytes)"
ProxyBody(method, body_bytes) ==
    IF method \in {"POST", "PUT", "PATCH"}
    THEN IF body_bytes # ""
         THEN IF JsonLoads(body_bytes).ok THEN JsonLoads(body_bytes).value ELSE None
         ELSE None
    ELSE None

-----------------------------------------------------------------------------
(* Outbound calls and downstream answers *)

NoJson == "<no json argument>"

\* what httpx puts on the wire for json=<arg>: nothing for an absent or None argument
WireContent(json_arg) == IF json_arg \in {NoJson, None} THEN "" ELSE json_arg

\* the method dispatch of a proxy: client.get / post / put / delete / patch
ProxyCall(service, method, params, body) ==
    [service |-> service,
     method  |-> method,
     params  |-> params,
     json    |-> IF method \in {"POST", "PUT", "PATCH"} THEN body ELSE NoJson]

Statuses == {200, 201, 204, 400, 404, 503}
TransportErrors == {"ConnectError", "ReadTimeout"}

NoDown == [kind |-> "none", status |-> 0, text |-> "", error |-> "none"]
\* the awaited client call returns a response, raises a transport error, or
\* raises httpx.HTTPStatusError carrying an error response
Downstream ==
    [kind : {"response"}, status : Statuses, text : DownstreamTexts, error : {"none"}]
    \cup [kind : {"transport_error"}, status : {0}, text : {""}, error : TransportErrors]
    \cup [kind : {"status_error"}, status : {s \in Statuses : ~(s \in 200..299)},
          text : {""}, error : {"HTTPStatusError"}]

\* Response.raise_for_status(): TRUE when it raises httpx.HTTPStatusError
RaisesForStatus(status) == ~(status \in 200..299)

-----------------------------------------------------------------------------
(* Gateway responses *)

NoResp == [status |-> 0, kind |-> "none", body |-> None]
Return(value) == [status |-> 200, kind |-> "json", body |-> value]
HTTPException(status_code, detail) ==
    [status |-> status_code, kind |-> "http_exception", body |-> detail]
\* an exception no handler catches: the framework answers 500 Internal Server Error
Unhandled(exc) == [status |-> 500, kind |-> "unhandled", body |-> exc]

SuccessNotFound ==
    "{\"success\":true,\"message\":\"View not found (already deleted or never existed)\"}"
SuccessOnly == "{\"success\":true}"

\* return response.json()
ReturnJson(text) ==
    IF JsonLoads(text).ok THEN Return(JsonLoads(text).value)
    ELSE Unhandled("JSONDecodeError")

\* proxy_visualization whose HTTPStatusError handler relays every status
proxy_visualization_result_PlainOnly(method, d) ==
    IF d.kind = "transport_error"
    THEN HTTPException(500, "Error proxying to 3D Data Service")
    ELSE IF d.kind = "response" /\ method = "DELETE" /\ d.status = 404
    THEN Return(SuccessNotFound)
    ELSE IF d.kind = "status_error" \/ RaisesForStatus(d.status)
    THEN HTTPException(d.status, "Error proxying to 3D Data Service")
    ELSE IF method = "DELETE" /\ d.status = 200
    THEN IF JsonLoads(d.text).ok THEN Return(JsonLoads(d.text).value)
         ELSE Return(SuccessOnly)
    ELSE ReturnJson(d.text)

\* proxy_visualization, from the answer of the awaited client call on
proxy_visualization_result(method, d) ==
    IF d.kind = "transport_error"
    THEN HTTPException(500, "Error proxying to 3D Data Service")
    ELSE IF d.kind = "response" /\ method = "DELETE" /\ d.status = 404
    THEN Return(SuccessNotFound)
    ELSE IF d.kind = "status_error" \/ RaisesForStatus(d.status)
    THEN IF method = "DELETE" /\ d.status = 404
         THEN Return(SuccessNotFound)
         ELSE HTTPException(d.status, "Error proxying to 3D Data Service")
    ELSE IF method = "DELETE" /\ d.status = 200
    THEN IF JsonLoads(d.text).ok THEN Return(JsonLoads(d.text).value)
         ELSE Return(SuccessOnly)
    ELSE ReturnJson(d.text)

\* proxy_projects: HTTPStatusError is an httpx.HTTPError, so one handler takes both
proxy_projects_result(method, d) ==
    IF d.kind = "transport_error"
    THEN HTTPException(500, "Error proxying to Database Manager Service")
    ELSE IF d.kind = "status_error" \/ RaisesForStatus(d.status)
    THEN HTTPException(500, "Error proxying to Database Manager Service")
    ELSE ReturnJson(d.text)

\* proxy_calculations with a timeout answered as 504 Gateway Timeout
proxy_calculations_result_504(method, d) ==
    IF d.kind = "transport_error"
    THEN HTTPException(IF d.error = "ReadTimeout" THEN 504 ELSE 500,
                       "Error proxying to Calculation Engine Service")
    ELSE IF d.kind = "status_error" \/ RaisesForStatus(d.status)
    THEN HTTPException(500, "Error proxying to Calculation Engine Service")
    ELSE ReturnJson(d.text)

proxy_calculations_result(method, d) ==
    IF d.kind = "transport_error"
    THEN HTTPException(500, "Error proxying to Calculation Engine Service")
    ELSE IF d.kind = "status_error" \/ RaisesForStatus(d.status)
    THEN HTTPException(500, "Error proxying to Calculation Engine Service")
    ELSE ReturnJson(d.text)

proxy_ifc_result(method, d) ==
    IF d.kind = "transport_error"
    THEN HTTPException(500, "Error proxying to IFC Parser Service")
    ELSE IF d.kind = "status_error" \/ RaisesForStatus(d.status)
    THEN HTTPException(500, "Error proxying to IFC Parser Service")
    ELSE ReturnJson(d.text)

\* the settings URL each proxy forwards to
ProxyService(family) ==
    CASE family = "visualization" -> "data_3d_url"
      [] family = "projects"      -> "db_manager_url"
      [] family = "calculations"  -> "calculation_engine_url"
      [] family = "ifc"           -> "ifc_parser_url"

-----------------------------------------------------------------------------
(* POST /api/ifc/parse: the parse call, then the best-effort cost call *)

ElementIds == {"e1", "e2"}
ElementLists == UNION {[1..n -> ElementIds] : n \in 0..MaxElements}

\* the JSON values "elements" can be: a list, a (non-empty) string, null
ListValue(items) == [t |-> "list", items |-> items]
StrValue == [t |-> "str", items |-> <<>>]
NullValue == [t |-> "null", items |-> <<>>]
ElementValues == {ListValue(l) : l \in ElementLists} \cup {StrValue, NullValue}

\* the decoded parse answer: an object (with or without the key "elements"),
\* a list, or any other JSON value
ParseData ==
    [t : {"dict"}, has_elements : {TRUE}, v : ElementValues]
    \cup {[t |-> "dict", has_elements |-> FALSE, v |-> NullValue]}
    \cup {[t |-> "list", has_elements |-> FALSE, v |-> ListValue(l)] : l \in ElementLists}
    \cup {[t |-> "other", has_elements |-> FALSE, v |-> NullValue]}

NoData == [t |-> "other", has_elements |-> FALSE, v |-> NullValue]

\* what the parsing service answered to client.post(.../api/ifc/parse)
ParseDown ==
    [kind : {"response"}, status : {200, 201}, decodes : {TRUE}, data : ParseData,
     error : {"none"}]
    \cup [kind : {"response"}, status : {200, 400, 503}, decodes : {FALSE},
          data : {NoData}, error : {"none"}]
    \cup [kind : {"transport_error"}, status : {0}, decodes : {FALSE},
          data : {NoData}, error : TransportErrors]

\* what the cost service answered to client.post(.../api/costs/calculate)
CostTexts == {"", "null", "{\"total\":1}"}
CostDown ==
    [kind : {"response"}, status : {200, 201, 503}, text : CostTexts, error : {"none"}]
    \cup [kind : {"transport_error"}, status : {0}, text : {""}, error : TransportErrors]

\* parse_data.get("elements", []) if dict, parse_data if list, else []
ExtractElements(parse_data) ==
    IF parse_data.t = "dict"
    THEN IF parse_data.has_elements THEN parse_data.v ELSE ListValue(<<>>)
    ELSE IF parse_data.t = "list" THEN parse_data.v
    ELSE ListValue(<<>>)

\* the cost call made whenever calculate_costs is set, whatever was parsed
Truthy_Always(v) == TRUE

\* Python truth value of the extracted elements
Truthy(v) ==
    CASE v.t = "list" -> v.items # <<>>
      [] v.t = "str"  -> TRUE
      [] v.t = "null" -> FALSE

\* costs after the cost call, with the parse result already in hand, when the
\* call fails in one place more: any status other than 200 or 201 is swallowed,
\* but an undecodable body escapes
CostsOf_DecodeEscapes(d) ==
    IF d.kind = "transport_error" THEN [raised |-> FALSE, costs |-> None]
    ELSE IF d.status = 200
    THEN IF JsonLoads(d.text).ok
         THEN [raised |-> FALSE, costs |-> JsonLoads(d.text).value]
         ELSE [raised |-> TRUE, costs |-> None]
    ELSE [raised |-> FALSE, costs |-> None]

\* costs taken only from an answer with status 201 Created
CostsOf_Created(d) ==
    IF d.kind = "transport_error" THEN [raised |-> FALSE, costs |-> None]
    ELSE IF d.status = 201
    THEN IF JsonLoads(d.text).ok
         THEN [raised |-> FALSE, costs |-> JsonLoads(d.text).value]
         ELSE [raised |-> FALSE, costs |-> None]
    ELSE [raised |-> FALSE, costs |-> None]

\* costs after the cost call; every exception is swallowed
CostsOf(d) ==
    IF d.kind = "transport_error" THEN [raised |-> FALSE, costs |-> None]
    ELSE IF d.status = 200
    THEN IF JsonLoads(d.text).ok
         THEN [raised |-> FALSE, costs |-> JsonLoads(d.text).value]
         ELSE [raised |-> FALSE, costs |-> None]
    ELSE [raised |-> FALSE, costs |-> None]

\* the dict parse_ifc returns
ParseResponse(elements, costs) ==
    Return([elements |-> elements,
            costs |-> costs,
            element_count |-> IF elements.t = "list" THEN Len(elements.items) ELSE 0,
            costs_calculated |-> costs # None])

NoParsed == [parse_data |-> NoData, elements |-> NullValue]

PriceLists == {None, "pl-1"}

-----------------------------------------------------------------------------
(* The orchestration service: Outcome, Route Dispatcher, Aggregator.       *)
(* Its code is not among the sources; it is modelled from sections 4.1 to  *)
(* 4.3 and 5 of the specification.                                          *)

Registry == {"ifc-parser", "calculation-engine", "cost-calculator", "3d-data",
             "db-manager"}

\* Outcome values: one decoded JSON value, or the list of an aggregate
NoValue == [t |-> "none", text |-> "", items |-> <<>>]
JsonValue(v) == [t |-> "json", text |-> v, items |-> <<>>]
ListOfValues(vs) == [t |-> "list", text |-> "", items |-> vs]

\* Failure messages, by their parts; index is 0 until the Aggregator annotates
NoMessage == [index |-> 0, service |-> "", cause |-> "", status |-> 0, detail |-> ""]
Message(service, cause, status, detail) ==
    [index |-> 0, service |-> service, cause |-> cause, status |-> status,
     detail |-> detail]

Success(value) == [is_failure |-> FALSE, value |-> value, error |-> NoMessage]
Failure(message) == [is_failure |-> TRUE, value |-> NoValue, error |-> message]
NoOutcome == [is_failure |-> FALSE, value |-> NoValue, error |-> NoMessage]

RouteMethods == Methods
RouteServices == {"3d-data", "cost-calculator", "no-such-service"}
RouteRequests ==
    [service : RouteServices, endpoint : {"/api/x"}, method : RouteMethods,
     data : {None, "{\"pin\":1}"}]

\* the one Transport call of a dispatch
TransportCall(r) ==
    [service |-> r.service, method |-> r.method, endpoint |-> r.endpoint,
     json |-> IF r.method \in {"GET", "DELETE"} THEN NoJson ELSE r.data]

\* the Transport calls of dispatch(r), when the call is issued before the
\* service name is resolved
DispatchCalls_BeforeResolve(r) == <<TransportCall(r)>>

\* the Transport calls of a dispatch that issues its call a second time
DispatchCalls_Twice(r) ==
    IF r.service \in Registry THEN <<TransportCall(r), TransportCall(r)>> ELSE <<>>

\* the Transport calls dispatch(r) issues: one for a registered service, none
\* for an unknown one
DispatchCalls(r) ==
    IF r.service \in Registry THEN <<TransportCall(r)>> ELSE <<>>

UnknownService(r) == Failure(Message(r.service, "unknown service", 0, ""))

\* what a downstream answers to a dispatched call
DispatchDown ==
    [kind : {"response"}, status : {200}, text : {"", "<html>", "[]", " {\"pin\": 1}\n"},
     error : {"none"}]
    \cup [kind : {"response"}, status : {404, 503}, text : {""}, error : {"none"}]
    \cup [kind : {"transport_error"}, status : {0}, text : {""}, error : {"ConnectError"}]

\* dispatch passing on a 2xx body it could not decode as if it were a value
DispatchOutcome_InvalidJsonIsSuccess(service, d) ==
    IF d.kind = "transport_error"
    THEN Failure(Message(service, "unreachable", 0, d.error))
    ELSE IF ~(d.status \in 200..299)
    THEN Failure(Message(service, "error", d.status, d.text))
    ELSE IF JsonLoads(d.text).ok
    THEN Success(JsonValue(JsonLoads(d.text).value))
    ELSE Success(JsonValue(d.text))

\* the Outcome of dispatch to a registered service, from the Transport's answer
DispatchOutcome(service, d) ==
    IF d.kind = "transport_error"
    THEN Failure(Message(service, "unreachable", 0, d.error))
    ELSE IF ~(d.status \in 200..299)
    THEN Failure(Message(service, "error", d.status, d.text))
    ELSE IF JsonLoads(d.text).ok
    THEN Success(JsonValue(JsonLoads(d.text).value))
    ELSE Failure(Message(service, "invalid JSON", d.status, d.text))

\* Aggregator tasks, one per request, by input index
Pending == [state |-> "pending", d |-> NoDown, outcome |-> NoOutcome]
Done(d, o) == [state |-> "done", d |-> d, outcome |-> o]

AggregateItems ==
    [service : {"3d-data", "db-manager", "no-such-service"}, endpoint : {"/api/x"},
     method : {"GET"}, data : {None}]
AggregateLists == UNION {[1..n -> AggregateItems] : n \in 0..MaxAggregate}

Succeeded(t) == t.state = "done" /\ ~t.outcome.is_failure
Failed(t) == t.state = "done" /\ t.outcome.is_failure

\* the lowest index whose dispatch failed, all before it having succeeded; 0 if none
FirstFailure(ts) ==
    LET ks == {k \in 1..Len(ts) : Failed(ts[k]) /\ \A j \in 1..(k - 1) : Succeeded(ts[j])}
    IN  IF ks = {} THEN 0 ELSE CHOOSE k \in ks : TRUE

\* results are awaited in input order: the aggregate is decided at the first
\* failure, or when every dispatch has succeeded
AggregateDecided(ts) ==
    FirstFailure(ts) # 0 \/ \A i \in 1..Len(ts) : Succeeded(ts[i])

Annotate(k, message) == [message EXCEPT !.index = k]

\* the aggregate reporting the last failure that has completed, not the first
AggregateOutcome_LastFailure(requests, ts) ==
    LET fs == {k \in 1..Len(ts) : Failed(ts[k])}
    IN  IF fs # {}
        THEN LET k == CHOOSE x \in fs : \A y \in fs : y <= x
             IN  Failure(Annotate(k, ts[k].outcome.error))
        ELSE Success(ListOfValues([i \in 1..Len(ts) |-> ts[i].outcome.value.text]))

\* the aggregate with its results listed last request first
AggregateOutcome_Reversed(requests, ts) ==
    IF FirstFailure(ts) # 0
    THEN Failure(Annotate(FirstFailure(ts), ts[FirstFailure(ts)].outcome.error))
    ELSE Success(ListOfValues(
            [i \in 1..Len(ts) |-> ts[Len(ts) + 1 - i].outcome.value.text]))

\* the aggregate whose Failure also carries the results gathered before it
AggregateOutcome_Partial(requests, ts) ==
    IF FirstFailure(ts) # 0
    THEN [is_failure |-> TRUE,
          value |-> ListOfValues([i \in 1..(FirstFailure(ts) - 1) |->
                                     ts[i].outcome.value.text]),
          error |-> Annotate(FirstFailure(ts), ts[FirstFailure(ts)].outcome.error)]
    ELSE Success(ListOfValues([i \in 1..Len(ts) |-> ts[i].outcome.value.text]))

\* the Outcome of aggregate(requests): the first failure, annotated with its
\* index (the message names the service), or the results in input order
AggregateOutcome(requests, ts) ==
    IF FirstFailure(ts) # 0
    THEN Failure(Annotate(FirstFailure(ts), ts[FirstFailure(ts)].outcome.error))
    ELSE Success(ListOfValues([i \in 1..Len(ts) |-> ts[i].outcome.value.text]))

\* route_to_service answering a downstream error with the downstream's status
route_to_service_result_RelaysStatus(result) ==
    IF result.is_failure
    THEN HTTPException(IF result.error.status # 0 THEN result.error.status ELSE 500,
                       result.error)
    ELSE Return(result.value)

\* route_to_service: unwrap the Outcome
route_to_service_result(result) ==
    IF result.is_failure
    THEN HTTPException(500, result.error)
    ELSE Return(result.value)

\* aggregate_requests returning result.value without looking at is_failure
aggregate_requests_result_Unchecked(result) == Return(result.value)

\* aggregate_requests: unwrap the Outcome
aggregate_requests_result(result) ==
    IF result.is_failure
    THEN HTTPException(500, result.error)
    ELSE Return(result.value)

-----------------------------------------------------------------------------
(* The database manager service: ProjectService and its router, and the     *)
(* gateway's typed endpoint GET /api/projects/{project_id}                   *)

NoProject == [project_id |-> None, name |-> None]

\* request.metadata: empty, or carrying its own "project_id" key
ProjectMetadata == {None} \cup ProjectIds

\* the router's project_data = {"name": ..., **request.metadata}
ProjectData(name, metadata) == [name |-> name, project_id |-> metadata]

\* ProjectService.create_project: the store with {"project_id": id, **project_data}
\* under the generated id
ProjectService_create_project(store, project_id, project_data) ==
    [id \in DOMAIN store \cup {project_id} |->
        IF id = project_id
        THEN [project_id |-> IF project_data.project_id = None THEN project_id
                             ELSE project_data.project_id,
              name |-> project_data.name]
        ELSE store[id]]

\* ProjectService.get_project
ProjectService_get_project(store, project_id) ==
    IF ~(project_id \in DOMAIN store)
    THEN [is_failure |-> TRUE, value |-> NoProject, error |-> ProjectNotFound(project_id)]
    ELSE [is_failure |-> FALSE, value |-> store[project_id], error |-> ""]

\* the project router's get_project: unwrap the Result
projects_get_project_result(result) ==
    IF result.is_failure
    THEN HTTPException(404, result.error)
    ELSE Return(ProjectJson(result.value))

\* a response of the project service as the gateway's Transport receives it
WireResponse(r) ==
    [kind |-> "response", status |-> r.status,
     text |-> IF r.kind = "http_exception" THEN DetailJson(r.body) ELSE r.body,
     error |-> "none"]

\* the route request of the gateway's get_project
GetProjectRoute(project_id) ==
    [service |-> "db-manager", endpoint |-> "/api/projects/" \o project_id,
     method |-> "GET", data |-> None]

\* the gateway's get_project: unwrap the Outcome
get_project_result(result) ==
    IF result.is_failure
    THEN HTTPException(500, result.error)
    ELSE Return(result.value)

-----------------------------------------------------------------------------
(* The 3D data service: VisualizationService and its router.  A stored     *)
(* record keeps the fields the operations read or write; the timestamps    *)
(* created_at and updated_at are left out.  In caller-supplied data a      *)
(* field that is None stands for a key the data does not contain.          *)

MaxStored == 2      \* the services hold at most this many stored items in all
MaxTogether == 1    \* and at most this many when the three run side by side

ViewIds == {"v1", "v2"}
ViewNames == {"front", "top"}

\* ViewCreateRequest.data and the body of PUT /views/{view_id}: any keys
ViewExtra == [id : {None} \cup ViewIds, project_id : {None} \cup ProjectIds]
ViewUpdates ==
    [name : {None} \cup ViewNames, id : {None} \cup ViewIds,
     project_id : {None} \cup ProjectIds]

\* the router's view_data = {"name": request.name, "type": ..., **request.data}
ViewData(name, data) == [name |-> name, id |-> data.id, project_id |-> data.project_id]

\* {**base, **data} on the modelled keys
Merge(base, data) ==
    [k \in DOMAIN base |-> IF k \in DOMAIN data /\ data[k] # None THEN data[k]
                           ELSE base[k]]

\* a store with key k bound to item
Bind(store, k, item) ==
    [x \in DOMAIN store \cup {k} |-> IF x = k THEN item ELSE store[x]]

\* a store without key k
Unbind(store, k) == [x \in DOMAIN store \ {k} |-> store[x]]

\* what a service operation returns, with the store it leaves
Ok(store, value) == [is_failure |-> FALSE, store |-> store, value |-> value, error |-> ""]
Fail(store, error) == [is_failure |-> TRUE, store |-> store, value |-> None, error |-> error]

\* VisualizationService.create_view, view_id being the generated uuid
VisualizationService_create_view(store, view_id, project_id, view_data) ==
    LET view == Merge([id |-> view_id, project_id |-> project_id, name |-> None],
                      view_data)
    IN  Ok(Bind(store, view_id, view), view)

\* VisualizationService.get_views (the list, taken as the set of its members)
VisualizationService_get_views(store, project_id) ==
    Ok(store, {store[k] : k \in {x \in DOMAIN store : store[x].project_id = project_id}})

\* VisualizationService.update_view
VisualizationService_update_view(store, view_id, view_data) ==
    IF ~(view_id \in DOMAIN store)
    THEN Fail(store, "View not found")
    ELSE Ok(Bind(store, view_id, Merge(store[view_id], view_data)),
            Merge(store[view_id], view_data))

\* delete_view refusing to delete a view that does not exist
VisualizationService_delete_view_Strict(store, view_id) ==
    IF ~(view_id \in DOMAIN store)
    THEN Fail(store, "View not found")
    ELSE Ok(Unbind(store, view_id), TRUE)

\* VisualizationService.delete_view
VisualizationService_delete_view(store, view_id) ==
    IF ~(view_id \in DOMAIN store)
    THEN Ok(store, TRUE)
    ELSE Ok(Unbind(store, view_id), TRUE)

\* a router handler's status: 200, or the status it raises on a Failure
RouterStatus(r, on_failure) == IF r.is_failure THEN on_failure ELSE 200

\* the record of a served operation
Served(op, args, r, on_failure) ==
    [op |-> op, args |-> args, is_failure |-> r.is_failure,
     status |-> RouterStatus(r, on_failure), value |-> r.value]

PinElements == {"e1", "e2"}
Colors == {"red", "blue"}

RECURSIVE Sum(_, _)
\* the sum of f over the set S
Sum(f, S) ==
    IF S = {} THEN 0
    ELSE LET x == CHOOSE y \in S : TRUE IN f[x] + Sum(f, S \ {x})

\* the number of items in a store of lists by project
Stored(store) == Sum([k \in DOMAIN store |-> Len(store[k])], DOMAIN store)

\* self._pins.get(project_id, []) and the like
ListOf(store, project_id) ==
    IF project_id \in DOMAIN store THEN store[project_id] ELSE <<>>

\* the index of the first item of list whose field holds value; 0 if none
FirstIndex(list, field, value) ==
    LET is == {i \in 1..Len(list) : list[i][field] = value}
    IN  IF is = {} THEN 0 ELSE CHOOSE i \in is : \A j \in is : i <= j

\* the list without the items whose field holds value
Without(list, field, value) == SelectSeq(list, LAMBDA x : x[field] # value)

\* VisualizationService.create_pin
VisualizationService_create_pin(store, project_id, element_id, color) ==
    LET pin == [element_id |-> element_id, color |-> color, project_id |-> project_id]
    IN  Ok(Bind(store, project_id, Append(ListOf(store, project_id), pin)), pin)

\* delete_pin treating a project without pin list like an empty one
VisualizationService_delete_pin_Lenient(store, project_id, element_id) ==
    Ok(Bind(store, project_id, Without(ListOf(store, project_id), "element_id", element_id)),
       TRUE)

\* VisualizationService.delete_pin
VisualizationService_delete_pin(store, project_id, element_id) ==
    IF ~(project_id \in DOMAIN store)
    THEN Fail(store, "No pins found for project")
    ELSE Ok(Bind(store, project_id, Without(store[project_id], "element_id", element_id)),
            TRUE)

\* VisualizationService.get_pins
VisualizationService_get_pins(store, project_id) == Ok(store, ListOf(store, project_id))

\* VisualizationService.update_pin: the first pin of the element gets the color
VisualizationService_update_pin(store, project_id, element_id, color) ==
    IF ~(project_id \in DOMAIN store)
    THEN Fail(store, "No pins found for project")
    ELSE LET i == FirstIndex(store[project_id], "element_id", element_id)
         IN  IF i = 0
             THEN Fail(store, "Pin for element not found")
             ELSE LET pin == [store[project_id][i] EXCEPT !.color = color]
                  IN  Ok([store EXCEPT ![project_id][i] = pin], pin)

SelectionIds == {"s1", "s2"}

\* SelectionCreateRequest.metadata: any keys, among them id and visible
SelectionMetadata == [id : {None} \cup SelectionIds, visible : {None, "True"}]

\* the ids of the stored selections
StoredSelectionIds(store) ==
    UNION {{store[p][i].id : i \in 1..Len(store[p])} : p \in DOMAIN store}

\* the places (project, index) of the selections with the id
Places(store, selection_id) ==
    UNION {{<<p, i>> : i \in {j \in 1..Len(store[p]) : store[p][j].id = selection_id}} :
           p \in DOMAIN store}

\* the places the loops over self._selections.values() can reach first: the
\* first selection with the id in the list of a project.  The projects are
\* visited in the order their lists were created, which the store does not
\* record, so every project holding the id is a candidate.
FirstPlaces(store, selection_id) ==
    {pi \in Places(store, selection_id) :
        \A qi \in Places(store, selection_id) : qi[1] = pi[1] => pi[2] <= qi[2]}

\* VisualizationService.create_selection, selection_id being the generated uuid
VisualizationService_create_selection(store, selection_id, project_id, selection_data) ==
    LET selection == Merge([id |-> selection_id, project_id |-> project_id,
                            visible |-> None, isolated |-> None], selection_data)
    IN  Ok(Bind(store, project_id, Append(ListOf(store, project_id), selection)),
           selection)

\* VisualizationService.get_selections
VisualizationService_get_selections(store, project_id) ==
    Ok(store, ListOf(store, project_id))

\* isolate_selection, show_selection, hide_selection: the selection found at
\* place gets selection[field] = value; place is <<>> when none has the id
SetSelectionFlag(store, place, field, value) ==
    IF place = <<>>
    THEN Fail(store, "Selection not found")
    ELSE Ok([store EXCEPT ![place[1]][place[2]][field] = value], TRUE)

VisualizationService_isolate_selection(store, place) ==
    SetSelectionFlag(store, place, "isolated", "True")
VisualizationService_show_selection(store, place) ==
    SetSelectionFlag(store, place, "visible", "True")
VisualizationService_hide_selection(store, place) ==
    SetSelectionFlag(store, place, "visible", "False")

\* the places a call naming selection_id can act on
Found(store, selection_id) ==
    IF Places(store, selection_id) = {} THEN {<<>>}
    ELSE FirstPlaces(store, selection_id)

-----------------------------------------------------------------------------
(* The calculation engine: CalculationService and its measurements.  A     *)
(* stored measurement keeps id, project_id, type, its points and its value *)
(* (the distance or the volume); created_at is left out.                   *)

MeasurementIds == {"m1", "m2", "m3"}

\* points as the requests carry them: Dict[str, float], keys not checked
PointO == [x |-> 0, y |-> 0, z |-> 0]
PointA == [x |-> 3, y |-> 4, z |-> 0]
PointNoZ == [x |-> 1, y |-> 1]

DimensionRequests ==
    {[point1 |-> PointO, point2 |-> PointA],
     [point1 |-> PointA, point2 |-> PointNoZ],
     [point1 |-> PointNoZ, point2 |-> PointO]}

VolumePoints == {[i \in 1..n |-> PointO] : n \in {0, 3, 4, 5}}

\* point["x"], point["y"], point["z"] raise no KeyError
HasXYZ(point) == {"x", "y", "z"} \subseteq DOMAIN point

\* math.sqrt on the perfect squares the points give
Sqrt(v) == CHOOSE n \in 0..v : n * n = v

\* CalculationService.calculate_dimension, measurement_id being the generated uuid
CalculationService_calculate_dimension(store, measurement_id, point1, point2, project_id) ==
    IF ~(HasXYZ(point1) /\ HasXYZ(point2))
    THEN Fail(store, "Error calculating dimension")
    ELSE LET dx == point2.x - point1.x
             dy == point2.y - point1.y
             dz == point2.z - point1.z
             measurement == [id |-> measurement_id, project_id |-> project_id,
                             type |-> "dimension", points |-> <<point1, point2>>,
                             value |-> Sqrt(dx * dx + dy * dy + dz * dz)]
         IN  Ok(Bind(store, project_id, Append(ListOf(store, project_id), measurement)),
                measurement)

\* calculate_volume asking for three points
CalculationService_calculate_volume_ThreePoints(store, measurement_id, points, project_id) ==
    IF Len(points) < 3
    THEN Fail(store, "At least 4 points required for volume calculation")
    ELSE LET measurement == [id |-> measurement_id, project_id |-> project_id,
                             type |-> "volume", points |-> points, value |-> 0]
         IN  Ok(Bind(store, project_id, Append(ListOf(store, project_id), measurement)),
                measurement)

\* calculate_volume creating the project's list before it counts the points
CalculationService_calculate_volume_ListFirst(store, measurement_id, points, project_id) ==
    IF Len(points) < 4
    THEN Fail(Bind(store, project_id, ListOf(store, project_id)),
              "At least 4 points required for volume calculation")
    ELSE LET measurement == [id |-> measurement_id, project_id |-> project_id,
                             type |-> "volume", points |-> points, value |-> 0]
         IN  Ok(Bind(store, project_id, Append(ListOf(store, project_id), measurement)),
                measurement)

\* CalculationService.calculate_volume, measurement_id being the generated uuid
CalculationService_calculate_volume(store, measurement_id, points, project_id) ==
    IF Len(points) < 4
    THEN Fail(store, "At least 4 points required for volume calculation")
    ELSE LET measurement == [id |-> measurement_id, project_id |-> project_id,
                             type |-> "volume", points |-> points, value |-> 0]
         IN  Ok(Bind(store, project_id, Append(ListOf(store, project_id), measurement)),
                measurement)

\* CalculationService.get_measurements
CalculationService_get_measurements(store, project_id) ==
    Ok(store, ListOf(store, project_id))

\* the ids of the items of a store of lists by project
StoredIds(store) ==
    UNION {{store[p][i].id : i \in 1..Len(store[p])} : p \in DOMAIN store}

-----------------------------------------------------------------------------
(* The database manager service: comments.  A stored comment keeps id,      *)
(* project_id, text and element_id; element_name and the dates are left out. *)

CommentIds == {"c1", "c2"}
CommentElements == {None, "e1"}

\* CommentCreateRequest.metadata: any keys, among them id
CommentMetadata == [id : {None} \cup CommentIds]
\* the body of PUT /{project_id}/comments/{comment_id}: any keys
CommentUpdates == [text : {None, "edited"}, id : {None} \cup CommentIds]

\* the router's comment_data = {"text": ..., "element_id": ..., **request.metadata}
CommentData(text, element_id, metadata) ==
    [text |-> text, element_id |-> element_id, id |-> metadata.id]

\* ProjectService.create_comment, comment_id being the generated uuid
ProjectService_create_comment(store, comment_id, project_id, comment_data) ==
    LET comment == Merge([id |-> comment_id, project_id |-> project_id,
                          text |-> None, element_id |-> None], comment_data)
    IN  Ok(Bind(store, project_id, Append(ListOf(store, project_id), comment)), comment)

\* ProjectService.get_comments
ProjectService_get_comments(store, project_id, element_id) ==
    IF element_id # None
    THEN Ok(store, SelectSeq(ListOf(store, project_id),
                             LAMBDA k : k.element_id = element_id))
    ELSE Ok(store, ListOf(store, project_id))

\* ProjectService.update_comment: the first comment with the id is updated
ProjectService_update_comment(store, project_id, comment_id, comment_data) ==
    IF ~(project_id \in DOMAIN store)
    THEN Fail(store, "No comments found for project")
    ELSE LET i == FirstIndex(store[project_id], "id", comment_id)
         IN  IF i = 0
             THEN Fail(store, "Comment not found")
             ELSE LET comment == Merge(store[project_id][i], comment_data)
                  IN  Ok([store EXCEPT ![project_id][i] = comment], comment)

\* ProjectService.delete_comment
ProjectService_delete_comment(store, project_id, comment_id) ==
    IF ~(project_id \in DOMAIN store)
    THEN Fail(store, "No comments found for project")
    ELSE Ok(Bind(store, project_id, Without(store[project_id], "id", comment_id)), TRUE)

-----------------------------------------------------------------------------
(* get_container: the module-level singleton every router keeps.  It is a  *)
(* plain def, so FastAPI runs it for each request in a thread of its pool; *)
(* the test of _container and the assignment to it are separate steps of   *)
(* a thread, and another thread may run between them.                      *)

\* the Container objects the process may construct, in construction order
Containers == <<"container1", "container2", "container3">>

-----------------------------------------------------------------------------
(* The gateway's route table.  A path is the sequence of its segments after *)
(* /api: /api/projects/p1 is <<"projects", "p1">>, a trailing slash is an   *)
(* empty last segment.  The framework tries the routes in the order of     *)
(* their decorators: the first whose path and method both match handles    *)
(* the request; a route whose path matches but whose method does not only  *)
(* makes the answer 405 when no later route matches in full.               *)

MaxSegments == 2    \* segments of an inbound path after its first one

FirstSegments == Families \cup {"costs", "gateway"}
Segments == {"", "parse", "elements", "static", "strength", "calculate", "scene",
             "route", "aggregate", "p1"}

RECURSIVE SeqsUpTo(_, _)
SeqsUpTo(S, n) ==
    IF n = 0 THEN {<<>>}
    ELSE LET shorter == SeqsUpTo(S, n - 1)
         IN  shorter \cup {Append(s, x) : s \in shorter, x \in S}

InboundPaths == {<<first>> \o rest : first \in FirstSegments,
                                     rest \in SeqsUpTo(Segments, MaxSegments)}

\* the decorators of the router, in the order of the file
Routes ==
    <<[methods |-> {"POST"}, path |-> <<"ifc", "parse">>, handler |-> "parse_ifc"],
      [methods |-> {"GET"}, path |-> <<"ifc", "elements">>, handler |-> "get_elements"],
      [methods |-> {"POST"}, path |-> <<"calculations", "static">>,
       handler |-> "calculate_static"],
      [methods |-> {"POST"}, path |-> <<"calculations", "strength">>,
       handler |-> "calculate_strength"],
      [methods |-> {"POST"}, path |-> <<"costs", "calculate">>,
       handler |-> "calculate_costs"],
      [methods |-> {"POST"}, path |-> <<"visualization", "scene">>,
       handler |-> "generate_scene"],
      [methods |-> {"POST"}, path |-> <<"projects">>, handler |-> "create_project"],
      [methods |-> {"GET"}, path |-> <<"projects", "{project_id}">>,
       handler |-> "get_project"],
      [methods |-> {"POST"}, path |-> <<"gateway", "route">>,
       handler |-> "route_to_service"],
      [methods |-> {"POST"}, path |-> <<"gateway", "aggregate">>,
       handler |-> "aggregate_requests"],
      [methods |-> Methods, path |-> <<"visualization", "{path:path}">>,
       handler |-> "proxy_visualization"],
      [methods |-> Methods, path |-> <<"projects", "{path:path}">>,
       handler |-> "proxy_projects"],
      [methods |-> Methods, path |-> <<"calculations", "{path:path}">>,
       handler |-> "proxy_calculations"],
      [methods |-> Methods, path |-> <<"ifc", "{path:path}">>,
       handler |-> "proxy_ifc"]>>

\* one segment of a route's path against one segment of the inbound path:
\* {project_id} takes any non-empty segment, a literal takes itself
SegmentMatches(pattern, segment) ==
    IF pattern = "{project_id}" THEN segment # "" ELSE pattern = segment

\* {path:path} takes the rest of the path, empty and with slashes too, after
\* the slash that follows the prefix
PathMatches(pattern, path) ==
    IF pattern[Len(pattern)] = "{path:path}"
    THEN /\ Len(path) >= Len(pattern)
         /\ \A i \in 1..(Len(pattern) - 1) : SegmentMatches(pattern[i], path[i])
    ELSE /\ Len(path) = Len(pattern)
         /\ \A i \in 1..Len(pattern) : SegmentMatches(pattern[i], path[i])

Match(route, method, path) ==
    IF ~PathMatches(route.path, path) THEN "NONE"
    ELSE IF method \in route.methods THEN "FULL"
    ELSE "PARTIAL"

\* the indexes of the routes that match in this way
Matching(kind, method, path) ==
    {i \in 1..Len(Routes) : Match(Routes[i], method, path) = kind}

Lowest(S) == CHOOSE i \in S : \A j \in S : i <= j

\* the path the router tries when nothing matched: the trailing slash taken
\* off, or put on
RedirectPath(path) ==
    IF path[Len(path)] = "" THEN SubSeq(path, 1, Len(path) - 1)
    ELSE Append(path, "")

\* what the router does once the full matches are known
Unmatched(method, path) ==
    IF Matching("PARTIAL", method, path) # {} THEN "method_not_allowed"
    ELSE IF \E i \in 1..Len(Routes) :
                Match(Routes[i], method, RedirectPath(path)) # "NONE"
         THEN "redirect_slashes"
    ELSE "not_found"

\* a router that lets the last matching route handle the request
Route_LastMatch(method, path) ==
    IF Matching("FULL", method, path) # {}
    THEN LET full == Matching("FULL", method, path)
         IN  Routes[CHOOSE i \in full : \A j \in full : j <= i].handler
    ELSE Unmatched(method, path)

\* the handler of an inbound request
Route(method, path) ==
    IF Matching("FULL", method, path) # {}
    THEN Routes[Lowest(Matching("FULL", method, path))].handler
    ELSE Unmatched(method, path)

-----------------------------------------------------------------------------
(* The state machine *)

\* ProjectService.__init__: self._projects = {}
NoProjects == [id \in {} |-> id]
\* ProjectService.__init__: self._comments = {}
NoComments == [id \in {} |-> id]
\* VisualizationService.__init__: self._views, self._pins, self._selections = {}
NoViews == [id \in {} |-> id]
NoPins == [id \in {} |-> id]
NoSelections == [id \in {} |-> id]
\* CalculationService.__init__: self._measurements = {}
NoMeasurements == [id \in {} |-> id]

\* no service operation has been called yet
NoResult == [op |-> "none"]

\* the threads of the pool that runs the synchronous dependency get_container
Workers == {"w1", "w2", "w3"}
\* a thread that is not inside get_container, holding what its last call returned
Outside == [at |-> "outside", returned |-> None]

\* no inbound request has been routed yet
NoMatch == [method |-> "none", path |-> <<>>, handler |-> "none"]

NoReq == [handler |-> "none", family |-> "none", method |-> "none",
          query |-> <<>>, body_bytes |-> ""]

\* the number of items the services hold
StoredItems ==
    Cardinality(DOMAIN views) + Stored(pins) + Stored(selections)
    + Cardinality(DOMAIN projects) + Stored(comments) + Stored(measurements)

Init ==
    /\ pc = "idle"
    /\ req = NoReq
    /\ calls = <<>>
    /\ down = NoDown
    /\ resp = NoResp
    /\ parsed = NoParsed
    /\ outcome = NoOutcome
    /\ tasks = <<>>
    /\ completed = <<>>
    /\ projects = NoProjects
    /\ comments = NoComments
    /\ views = NoViews
    /\ pins = NoPins
    /\ selections = NoSelections
    /\ measurements = NoMeasurements
    /\ served = NoResult
    /\ container = None
    /\ created = <<>>
    /\ workers = [w \in Workers |-> Outside]
    /\ matched = NoMatch

\* a proxy handler up to its await: read method, query and body, issue the call
ProxySend(family) ==
    /\ pc = "idle"
    /\ \E method \in Methods, qs \in QueryStrings, body_bytes \in InboundBodies :
          /\ req' = [handler |-> "proxy", family |-> family, method |-> method,
                     query |-> qs, body_bytes |-> body_bytes]
          /\ calls' = <<ProxyCall(ProxyService(family), method, QueryDict(qs),
                                  ProxyBody(method, body_bytes))>>
    /\ pc' = "proxy_wait"
    /\ UNCHANGED <<down, resp, parsed, outcome, tasks, completed, services, singleton, matched>>

\* a proxy handler that issues its call once more after a transport failure
ProxyFinish_Retry(family, result) ==
    /\ pc = "proxy_wait"
    /\ req.family = family
    /\ down' = result
    /\ pc' = "responded"
    /\ calls' = IF result.kind = "transport_error" THEN Append(calls, calls[1])
                ELSE calls
    /\ UNCHANGED <<req, parsed, outcome, tasks, completed, services, singleton, matched>>

\* a proxy handler from the answer of its call to its response
ProxyFinish(family, result) ==
    /\ pc = "proxy_wait"
    /\ req.family = family
    /\ down' = result
    /\ pc' = "responded"
    /\ UNCHANGED <<req, calls, parsed, outcome, tasks, completed, services, singleton, matched>>

proxy_visualization_send == ProxySend("visualization")
proxy_projects_send == ProxySend("projects")
proxy_calculations_send == ProxySend("calculations")
proxy_ifc_send == ProxySend("ifc")

proxy_visualization ==
    \E d \in Downstream :
        /\ ProxyFinish("visualization", d)
        /\ resp' = proxy_visualization_result(req.method, d)

proxy_projects ==
    \E d \in Downstream :
        /\ ProxyFinish("projects", d)
        /\ resp' = proxy_projects_result(req.method, d)

proxy_calculations ==
    \E d \in Downstream :
        /\ ProxyFinish("calculations", d)
        /\ resp' = proxy_calculations_result(req.method, d)

proxy_ifc ==
    \E d \in Downstream :
        /\ ProxyFinish("ifc", d)
        /\ resp' = proxy_ifc_result(req.method, d)

\* parse_ifc up to its first await: read the file, post it to the parser
parse_ifc_send ==
    /\ pc = "idle"
    /\ \E calculate_costs \in BOOLEAN, price_list_id \in PriceLists :
          req' = [handler |-> "parse_ifc", calculate_costs |-> calculate_costs,
                  price_list_id |-> price_list_id]
    /\ calls' = <<[service |-> "ifc_parser_url", method |-> "POST",
                   endpoint |-> "/api/ifc/parse", json |-> NoJson,
                   price_list_id |-> None]>>
    /\ pc' = "parse_wait"
    /\ UNCHANGED <<down, resp, parsed, outcome, tasks, completed, services, singleton, matched>>

\* parse_ifc from the parser's answer: fail, or answer without costs, or post
\* the elements to the cost service
parse_ifc_parsed ==
    /\ pc = "parse_wait"
    /\ \E d \in ParseDown :
        /\ down' = d
        /\ IF d.kind = "transport_error" \/ RaisesForStatus(d.status)
           THEN /\ resp' = HTTPException(500, "Error parsing IFC file")
                /\ pc' = "responded"
                /\ UNCHANGED <<calls, parsed>>
           ELSE IF ~d.decodes
           THEN /\ resp' = Unhandled("JSONDecodeError")
                /\ pc' = "responded"
                /\ UNCHANGED <<calls, parsed>>
           ELSE LET elements == ExtractElements(d.data) IN
                /\ parsed' = [parse_data |-> d.data, elements |-> elements]
                /\ IF req.calculate_costs /\ Truthy(elements)
                   THEN /\ calls' = Append(calls,
                                [service |-> "cost_calculator_url", method |-> "POST",
                                 endpoint |-> "/api/costs/calculate", json |-> elements,
                                 price_list_id |-> req.price_list_id])
                        /\ pc' = "cost_wait"
                        /\ UNCHANGED resp
                   ELSE /\ resp' = ParseResponse(elements, None)
                        /\ pc' = "responded"
                        /\ UNCHANGED calls
    /\ UNCHANGED <<req, outcome, tasks, completed, services, singleton, matched>>

\* parse_ifc from the cost service's answer to its response
parse_ifc_costed ==
    /\ pc = "cost_wait"
    /\ \E d \in CostDown :
        /\ down' = d
        /\ resp' = IF CostsOf(d).raised THEN Unhandled("JSONDecodeError")
                   ELSE ParseResponse(parsed.elements, CostsOf(d).costs)
    /\ pc' = "responded"
    /\ UNCHANGED <<req, calls, parsed, outcome, tasks, completed, services, singleton, matched>>

\* route_to_service up to the await inside dispatch; an unknown service is
\* answered at once
route_to_service_send ==
    /\ pc = "idle"
    /\ \E r \in RouteRequests :
        /\ req' = [handler |-> "route", route |-> r]
        /\ calls' = DispatchCalls(r)
        /\ IF r.service \in Registry
           THEN /\ pc' = "route_wait"
                /\ UNCHANGED <<outcome, resp>>
           ELSE /\ outcome' = UnknownService(r)
                /\ resp' = route_to_service_result(UnknownService(r))
                /\ pc' = "responded"
    /\ UNCHANGED <<down, parsed, tasks, completed, services, singleton, matched>>

\* route_to_service from the Transport's answer to its response
route_to_service ==
    /\ pc = "route_wait"
    /\ \E d \in DispatchDown :
        /\ down' = d
        /\ outcome' = DispatchOutcome(req.route.service, d)
        /\ resp' = route_to_service_result(DispatchOutcome(req.route.service, d))
    /\ pc' = "responded"
    /\ UNCHANGED <<req, calls, parsed, tasks, completed, services, singleton, matched>>

RECURSIVE AllDispatchCalls(_)
AllDispatchCalls(rs) ==
    IF rs = <<>> THEN <<>>
    ELSE AllDispatchCalls(SubSeq(rs, 1, Len(rs) - 1)) \o DispatchCalls(rs[Len(rs)])

\* aggregate_requests up to its await: every request is dispatched
aggregate_requests_send ==
    /\ pc = "idle"
    /\ \E rs \in AggregateLists :
        /\ req' = [handler |-> "aggregate", requests |-> rs]
        /\ calls' = AllDispatchCalls(rs)
        /\ tasks' = [i \in 1..Len(rs) |-> Pending]
    /\ completed' = <<>>
    /\ pc' = "aggregate_wait"
    /\ UNCHANGED <<down, resp, parsed, outcome, services, singleton, matched>>

\* one dispatch of the aggregate completes, in any order, also after the
\* aggregate has answered (siblings of a failure run to completion)
DispatchCompletes(i) ==
    /\ pc \in {"aggregate_wait", "responded"}
    /\ req.handler = "aggregate"
    /\ i \in 1..Len(tasks)
    /\ tasks[i].state = "pending"
    /\ IF req.requests[i].service \in Registry
       THEN \E d \in DispatchDown :
              tasks' = [tasks EXCEPT
                          ![i] = Done(d, DispatchOutcome(req.requests[i].service, d))]
       ELSE tasks' = [tasks EXCEPT ![i] = Done(NoDown, UnknownService(req.requests[i]))]
    /\ completed' = Append(completed, i)
    /\ UNCHANGED <<pc, req, calls, down, resp, parsed, outcome, services, singleton, matched>>

dispatch_completes == \E i \in 1..MaxAggregate : DispatchCompletes(i)

\* aggregate_requests from the Aggregator's Outcome to its response
aggregate_requests ==
    /\ pc = "aggregate_wait"
    /\ AggregateDecided(tasks)
    /\ outcome' = AggregateOutcome(req.requests, tasks)
    /\ resp' = aggregate_requests_result(AggregateOutcome(req.requests, tasks))
    /\ pc' = "responded"
    /\ UNCHANGED <<req, calls, down, parsed, tasks, completed, services, singleton, matched>>

\* the response is sent; the next inbound request starts from a clean slate
NextRequest ==
    /\ pc = "responded"
    /\ pc' = "idle"
    /\ req' = NoReq
    /\ calls' = <<>>
    /\ down' = NoDown
    /\ resp' = NoResp
    /\ parsed' = NoParsed
    /\ outcome' = NoOutcome
    /\ tasks' = <<>>
    /\ completed' = <<>>
    /\ UNCHANGED <<services, singleton, matched>>

\* the project service handles POST /api/projects/ of one of its clients
projects_create_project ==
    /\ StoredItems < MaxStored
    /\ \E project_id \in ProjectIds \ DOMAIN projects, name \in ProjectNames,
          metadata \in ProjectMetadata :
          LET store == ProjectService_create_project(projects, project_id,
                                                     ProjectData(name, metadata))
          IN  /\ projects' = store
              /\ served' = Served("create_project", [name |-> name],
                                  Ok(store, store[project_id]), 500)
    /\ UNCHANGED <<gateway, comments, views, pins, selections, measurements,
                   singleton, matched>>

\* the project service handles GET /api/projects/{project_id} asked of it directly
projects_get_project ==
    /\ pc = "idle"
    /\ \E project_id \in ProjectIds :
          /\ req' = [handler |-> "projects.get_project", project_id |-> project_id]
          /\ resp' = projects_get_project_result(
                        ProjectService_get_project(projects, project_id))
    /\ pc' = "responded"
    /\ UNCHANGED <<calls, down, parsed, outcome, tasks, completed, services, singleton, matched>>

\* the gateway's get_project up to the await inside route_request
get_project_send ==
    /\ pc = "idle"
    /\ \E project_id \in ProjectIds :
          /\ req' = [handler |-> "get_project", project_id |-> project_id]
          /\ calls' = DispatchCalls(GetProjectRoute(project_id))
    /\ pc' = "get_project_wait"
    /\ UNCHANGED <<down, resp, parsed, outcome, tasks, completed, services, singleton, matched>>

\* the gateway's get_project from the answer of the project service (or the
\* failure to reach it) to its response
get_project ==
    /\ pc = "get_project_wait"
    /\ \E d \in {WireResponse(projects_get_project_result(
                    ProjectService_get_project(projects, req.project_id)))}
                \cup [kind : {"transport_error"}, status : {0}, text : {""},
                      error : {"ConnectError"}] :
          /\ down' = d
          /\ outcome' = DispatchOutcome("db-manager", d)
          /\ resp' = get_project_result(DispatchOutcome("db-manager", d))
    /\ pc' = "responded"
    /\ UNCHANGED <<req, calls, parsed, tasks, completed, services, singleton, matched>>

Next ==
    \/ proxy_visualization_send
    \/ proxy_projects_send
    \/ proxy_calculations_send
    \/ proxy_ifc_send
    \/ proxy_visualization
    \/ proxy_projects
    \/ proxy_calculations
    \/ proxy_ifc
    \/ parse_ifc_send
    \/ parse_ifc_parsed
    \/ parse_ifc_costed
    \/ route_to_service_send
    \/ route_to_service
    \/ aggregate_requests_send
    \/ dispatch_completes
    \/ aggregate_requests
    \/ NextRequest

Spec == Init /\ [][Next]_vars

\* project lookups: the project service with its clients, and the gateway's
\* typed endpoint in front of it
NextProjects ==
    \/ projects_create_project
    \/ projects_get_project
    \/ get_project_send
    \/ get_project
    \/ NextRequest

SpecProjects == Init /\ [][NextProjects]_vars

-----------------------------------------------------------------------------
(* The 3D data service: views *)

\* POST /api/visualization/views
create_view ==
    /\ StoredItems < MaxStored
    /\ \E view_id \in ViewIds \ DOMAIN views, project_id \in ProjectIds,
          name \in ViewNames, data \in ViewExtra :
          LET r == VisualizationService_create_view(views, view_id, project_id,
                                                    ViewData(name, data))
          IN  /\ views' = r.store
              /\ served' = Served("create_view",
                                  [view_id |-> view_id, project_id |-> project_id],
                                  r, 500)
    /\ UNCHANGED <<gateway, projects, comments, pins, selections, measurements,
                   singleton, matched>>

\* GET /api/visualization/views/{project_id}
get_views ==
    /\ \E project_id \in ProjectIds :
          LET r == VisualizationService_get_views(views, project_id)
          IN  /\ views' = r.store
              /\ served' = Served("get_views", [project_id |-> project_id], r, 500)
    /\ UNCHANGED <<gateway, projects, comments, pins, selections, measurements,
                   singleton, matched>>

\* PUT /api/visualization/views/{view_id}
update_view ==
    /\ \E view_id \in ViewIds, view_data \in ViewUpdates :
          LET r == VisualizationService_update_view(views, view_id, view_data)
          IN  /\ views' = r.store
              /\ served' = Served("update_view", [view_id |-> view_id], r, 404)
    /\ UNCHANGED <<gateway, projects, comments, pins, selections, measurements,
                   singleton, matched>>

\* DELETE /api/visualization/views/{view_id}
delete_view ==
    /\ \E view_id \in ViewIds :
          LET r == VisualizationService_delete_view(views, view_id)
          IN  /\ views' = r.store
              /\ served' = Served("delete_view", [view_id |-> view_id], r, 404)
    /\ UNCHANGED <<gateway, projects, comments, pins, selections, measurements,
                   singleton, matched>>

NextViews ==
    \/ create_view
    \/ get_views
    \/ update_view
    \/ delete_view

SpecViews == Init /\ [][NextViews]_vars

-----------------------------------------------------------------------------
(* The 3D data service: pins *)

\* POST /api/visualization/pins
create_pin ==
    /\ StoredItems < MaxStored
    /\ \E project_id \in ProjectIds, element_id \in PinElements, color \in Colors :
          LET r == VisualizationService_create_pin(pins, project_id, element_id, color)
          IN  /\ pins' = r.store
              /\ served' = Served("create_pin",
                                  [project_id |-> project_id, element_id |-> element_id,
                                   color |-> color], r, 500)
    /\ UNCHANGED <<gateway, projects, comments, views, selections, measurements,
                   singleton, matched>>

\* DELETE /api/visualization/pins/{project_id}/{element_id}
delete_pin ==
    /\ \E project_id \in ProjectIds, element_id \in PinElements :
          LET r == VisualizationService_delete_pin(pins, project_id, element_id)
          IN  /\ pins' = r.store
              /\ served' = Served("delete_pin",
                                  [project_id |-> project_id, element_id |-> element_id],
                                  r, 404)
    /\ UNCHANGED <<gateway, projects, comments, views, selections, measurements,
                   singleton, matched>>

\* GET /api/visualization/pins/{project_id}
get_pins ==
    /\ \E project_id \in ProjectIds :
          LET r == VisualizationService_get_pins(pins, project_id)
          IN  /\ pins' = r.store
              /\ served' = Served("get_pins", [project_id |-> project_id], r, 500)
    /\ UNCHANGED <<gateway, projects, comments, views, selections, measurements,
                   singleton, matched>>

\* PUT /api/visualization/pins/{project_id}/{element_id}?color=
update_pin ==
    /\ \E project_id \in ProjectIds, element_id \in PinElements, color \in Colors :
          LET r == VisualizationService_update_pin(pins, project_id, element_id, color)
          IN  /\ pins' = r.store
              /\ served' = Served("update_pin",
                                  [project_id |-> project_id, element_id |-> element_id,
                                   color |-> color], r, 404)
    /\ UNCHANGED <<gateway, projects, comments, views, selections, measurements,
                   singleton, matched>>

NextPins ==
    \/ create_pin
    \/ delete_pin
    \/ get_pins
    \/ update_pin

SpecPins == Init /\ [][NextPins]_vars

-----------------------------------------------------------------------------
(* The 3D data service: selections *)

\* POST /api/visualization/selections
create_selection ==
    /\ StoredItems < MaxStored
    /\ \E selection_id \in SelectionIds \ StoredSelectionIds(selections),
          project_id \in ProjectIds, metadata \in SelectionMetadata :
          LET r == VisualizationService_create_selection(selections, selection_id,
                                                         project_id, metadata)
          IN  /\ selections' = r.store
              /\ served' = Served("create_selection", [project_id |-> project_id],
                                  r, 500)
    /\ UNCHANGED <<gateway, projects, comments, views, pins, measurements,
                   singleton, matched>>

\* GET /api/visualization/selections/{project_id}
get_selections ==
    /\ \E project_id \in ProjectIds :
          LET r == VisualizationService_get_selections(selections, project_id)
          IN  /\ selections' = r.store
              /\ served' = Served("get_selections", [project_id |-> project_id],
                                  r, 500)
    /\ UNCHANGED <<gateway, projects, comments, views, pins, measurements,
                   singleton, matched>>

\* POST /api/visualization/selections/{selection_id}/isolate
isolate_selection ==
    /\ \E selection_id \in SelectionIds :
       \E place \in Found(selections, selection_id) :
          LET r == VisualizationService_isolate_selection(selections, place)
          IN  /\ selections' = r.store
              /\ served' = Served("isolate_selection",
                                  [selection_id |-> selection_id], r, 404)
    /\ UNCHANGED <<gateway, projects, comments, views, pins, measurements,
                   singleton, matched>>

\* POST /api/visualization/selections/{selection_id}/show
show_selection ==
    /\ \E selection_id \in SelectionIds :
       \E place \in Found(selections, selection_id) :
          LET r == VisualizationService_show_selection(selections, place)
          IN  /\ selections' = r.store
              /\ served' = Served("show_selection",
                                  [selection_id |-> selection_id], r, 404)
    /\ UNCHANGED <<gateway, projects, comments, views, pins, measurements,
                   singleton, matched>>

\* POST /api/visualization/selections/{selection_id}/hide
hide_selection ==
    /\ \E selection_id \in SelectionIds :
       \E place \in Found(selections, selection_id) :
          LET r == VisualizationService_hide_selection(selections, place)
          IN  /\ selections' = r.store
              /\ served' = Served("hide_selection",
                                  [selection_id |-> selection_id], r, 404)
    /\ UNCHANGED <<gateway, projects, comments, views, pins, measurements,
                   singleton, matched>>

NextSelections ==
    \/ create_selection
    \/ get_selections
    \/ isolate_selection
    \/ show_selection
    \/ hide_selection

SpecSelections == Init /\ [][NextSelections]_vars

-----------------------------------------------------------------------------
(* The calculation engine: measurements *)

\* POST /api/calculations/dimensions
calculate_dimension ==
    /\ StoredItems < MaxStored
    /\ \E measurement_id \in MeasurementIds \ StoredIds(measurements),
          request \in DimensionRequests, project_id \in ProjectIds :
          LET r == CalculationService_calculate_dimension(
                      measurements, measurement_id, request.point1, request.point2,
                      project_id)
          IN  /\ measurements' = r.store
              /\ served' = Served("calculate_dimension",
                                  [project_id |-> project_id, points |-> request],
                                  r, 500)
    /\ UNCHANGED <<gateway, projects, comments, views, pins, selections,
                   singleton, matched>>

\* POST /api/calculations/volume
calculate_volume ==
    /\ StoredItems < MaxStored
    /\ \E measurement_id \in MeasurementIds \ StoredIds(measurements),
          points \in VolumePoints, project_id \in ProjectIds :
          LET r == CalculationService_calculate_volume(measurements, measurement_id,
                                                       points, project_id)
          IN  /\ measurements' = r.store
              /\ served' = Served("calculate_volume",
                                  [project_id |-> project_id, points |-> points],
                                  r, 500)
    /\ UNCHANGED <<gateway, projects, comments, views, pins, selections,
                   singleton, matched>>

\* GET /api/calculations/measurements/{project_id}
get_measurements ==
    /\ \E project_id \in ProjectIds :
          LET r == CalculationService_get_measurements(measurements, project_id)
          IN  /\ measurements' = r.store
              /\ served' = Served("get_measurements", [project_id |-> project_id],
                                  r, 500)
    /\ UNCHANGED <<gateway, projects, comments, views, pins, selections,
                   singleton, matched>>

NextMeasurements ==
    \/ calculate_dimension
    \/ calculate_volume
    \/ get_measurements

SpecMeasurements == Init /\ [][NextMeasurements]_vars

-----------------------------------------------------------------------------
(* The database manager service: comments *)

\* POST /api/projects/{project_id}/comments
create_comment ==
    /\ StoredItems < MaxStored
    /\ \E comment_id \in CommentIds \ StoredIds(comments), project_id \in ProjectIds,
          element_id \in CommentElements, metadata \in CommentMetadata :
          LET r == ProjectService_create_comment(
                      comments, comment_id, project_id,
                      CommentData("note", element_id, metadata))
          IN  /\ comments' = r.store
              /\ served' = Served("create_comment", [project_id |-> project_id], r, 500)
    /\ UNCHANGED <<gateway, projects, views, pins, selections, measurements,
                   singleton, matched>>

\* GET /api/projects/{project_id}/comments and .../comments/{element_id}
get_comments ==
    /\ \E project_id \in ProjectIds, element_id \in CommentElements :
          LET r == ProjectService_get_comments(comments, project_id, element_id)
          IN  /\ comments' = r.store
              /\ served' = Served("get_comments",
                                  [project_id |-> project_id, element_id |-> element_id],
                                  r, 500)
    /\ UNCHANGED <<gateway, projects, views, pins, selections, measurements,
                   singleton, matched>>

\* PUT /api/projects/{project_id}/comments/{comment_id}
update_comment ==
    /\ \E project_id \in ProjectIds, comment_id \in CommentIds,
          comment_data \in CommentUpdates :
          LET r == ProjectService_update_comment(comments, project_id, comment_id,
                                                 comment_data)
          IN  /\ comments' = r.store
              /\ served' = Served("update_comment",
                                  [project_id |-> project_id, comment_id |-> comment_id],
                                  r, 404)
    /\ UNCHANGED <<gateway, projects, views, pins, selections, measurements,
                   singleton, matched>>

\* DELETE /api/projects/{project_id}/comments/{comment_id}
delete_comment ==
    /\ \E project_id \in ProjectIds, comment_id \in CommentIds :
          LET r == ProjectService_delete_comment(comments, project_id, comment_id)
          IN  /\ comments' = r.store
              /\ served' = Served("delete_comment",
                                  [project_id |-> project_id, comment_id |-> comment_id],
                                  r, 404)
    /\ UNCHANGED <<gateway, projects, views, pins, selections, measurements,
                   singleton, matched>>

-----------------------------------------------------------------------------
(* The three services side by side, each with its own stores: the          *)
(* operations that can return Failure, and the creations that fill the     *)
(* stores they look into.                                                   *)

NextServices ==
    \/ StoredItems < MaxTogether /\ create_view
    \/ update_view
    \/ StoredItems < MaxTogether /\ create_pin
    \/ delete_pin
    \/ update_pin
    \/ StoredItems < MaxTogether /\ create_selection
    \/ isolate_selection
    \/ show_selection
    \/ hide_selection
    \/ StoredItems < MaxTogether /\ projects_create_project
    \/ projects_get_project
    \/ NextRequest
    \/ StoredItems < MaxTogether /\ create_comment
    \/ update_comment
    \/ delete_comment
    \/ StoredItems < MaxTogether /\ calculate_dimension
    \/ StoredItems < MaxTogether /\ calculate_volume

SpecServices == Init /\ [][NextServices]_vars

-----------------------------------------------------------------------------
(* get_container in the threads of the pool *)

\* if _container is None: the thread reads the global and takes a branch
get_container_test(w) ==
    /\ workers[w].at = "outside"
    /\ workers' = [workers EXCEPT ![w].at = IF container = None THEN "create"
                                            ELSE "return"]
    /\ UNCHANGED <<container, created, gateway, services, matched>>

\* _container = Container(): a new object is constructed and assigned
get_container_create(w) ==
    /\ workers[w].at = "create"
    /\ created' = Append(created, Containers[Len(created) + 1])
    /\ container' = Containers[Len(created) + 1]
    /\ workers' = [workers EXCEPT ![w].at = "return"]
    /\ UNCHANGED <<gateway, services, matched>>

\* return _container: the global is read again and handed to the request
get_container_return(w) ==
    /\ workers[w].at = "return"
    /\ workers' = [workers EXCEPT ![w] = [at |-> "outside", returned |-> container]]
    /\ UNCHANGED <<container, created, gateway, services, matched>>

NextContainer ==
    \E w \in Workers :
        \/ get_container_test(w)
        \/ get_container_create(w)
        \/ get_container_return(w)

SpecContainer == Init /\ [][NextContainer]_vars

-----------------------------------------------------------------------------
(* The gateway's routing of inbound requests *)

\* an inbound request reaches the router and is given to a handler
inbound_request ==
    /\ matched = NoMatch
    /\ \E method \in Methods, path \in InboundPaths :
          matched' = [method |-> method, path |-> path,
                      handler |-> Route(method, path)]
    /\ UNCHANGED <<gateway, services, singleton>>

\* the handler has answered; the router waits for the next request
request_handled ==
    /\ matched # NoMatch
    /\ matched' = NoMatch
    /\ UNCHANGED <<gateway, services, singleton>>

NextRouting ==
    \/ inbound_request
    \/ request_handled

SpecRouting == Init /\ [][NextRouting]_vars

-----------------------------------------------------------------------------
(* Properties of the wildcard proxies *)

ProxyResponded == pc = "responded" /\ req.handler = "proxy"

\* C1: in every proxy family, a DELETE whose downstream response status is 404
\* is answered 200 with a body carrying success = true, never an error status.
C1_DeleteNotFoundIsSuccess ==
    (ProxyResponded /\ req.method = "DELETE"
        /\ down.kind = "response" /\ down.status = 404)
    => (resp.status = 200 /\ resp.kind = "json"
        /\ resp.body \in {SuccessNotFound, SuccessOnly})

\* C2: in every proxy family, a downstream non-2xx status (other than the
\* DELETE/404 case) is answered with exactly the downstream's status code.
C2_StatusPropagated ==
    (ProxyResponded /\ down.kind = "response" /\ ~(down.status \in 200..299)
        /\ ~(req.method = "DELETE" /\ down.status = 404))
    => resp.status = down.status

\* C3: in every proxy family and for every method and 2xx status, the downstream
\* JSON body is relayed unmodified, and an empty 2xx body is answered
\* {"success": true} instead of failing to parse.
C3_SuccessRelayed ==
    (ProxyResponded /\ down.kind = "response" /\ down.status \in 200..299)
    => /\ JsonLoads(down.text).ok => resp = Return(JsonLoads(down.text).value)
       /\ down.text = "" => resp = Return(SuccessOnly)

\* C9: in every proxy family and for every method, a transport-level failure
\* (no downstream response) is answered with the internal error status 500.
C9_TransportFailureIs500 ==
    (ProxyResponded /\ down.kind = "transport_error")
    => (resp.status = 500 /\ resp.kind = "http_exception")

C9_Witness ==
    /\ ProxyResponded
    /\ req.family = "calculations"
    /\ req.method = "DELETE"
    /\ down.kind = "transport_error"
    /\ down.error = "ReadTimeout"
    /\ resp.status = 500

\* C10: a proxy call sends no body for GET and DELETE, forwards the parsed inbound
\* JSON body for POST, PUT and PATCH, and with an empty or invalid inbound body
\* still issues the call, without a body, the gateway raising no 400 of its own.
C10_BodyForwarding ==
    (pc \in {"proxy_wait", "responded"} /\ req.handler = "proxy")
    => /\ Len(calls) = 1
       /\ calls[1].method = req.method
       /\ req.method \in {"GET", "DELETE"} => WireContent(calls[1].json) = ""
       /\ (req.method \in {"POST", "PUT", "PATCH"} /\ JsonLoads(req.body_bytes).ok)
            => calls[1].json = JsonLoads(req.body_bytes).value
       /\ (req.method \in {"POST", "PUT", "PATCH"} /\ ~JsonLoads(req.body_bytes).ok)
            => WireContent(calls[1].json) = ""
       /\ resp.status = 400
            => (down.kind \in {"response", "status_error"} /\ down.status = 400)

C10_Witness ==
    /\ pc = "proxy_wait"
    /\ req.handler = "proxy"
    /\ req.method = "PUT"
    /\ req.body_bytes = "{"
    /\ Len(calls) = 1
    /\ calls[1].json = None

\* C11: the query parameters that reach the downstream of a proxy call are the
\* inbound ones, same keys and same values whatever the order: none is added,
\* dropped or changed, for every method.
C11_QueryForwarded ==
    (pc \in {"proxy_wait", "responded"} /\ req.handler = "proxy")
    => calls[1].params = {req.query[i] : i \in 1..Len(req.query)}

\* C19: in the visualization proxy, a DELETE answered 404 gets the same gateway
\* response (200, same body) whether the 404 arrives as a plain response or
\* through the status-error path.
C19_NotFoundPathsAgree ==
    (ProxyResponded /\ req.family = "visualization" /\ req.method = "DELETE"
        /\ down.kind \in {"response", "status_error"} /\ down.status = 404)
    => resp = Return(SuccessNotFound)

C19_Witness ==
    /\ ProxyResponded
    /\ req.family = "visualization"
    /\ req.method = "DELETE"
    /\ down.kind = "status_error"
    /\ down.status = 404
    /\ resp.status = 200

\* C20: an inbound proxy request causes at most one outbound call: after a
\* timeout or any other failure the handler answers and issues no second call.
C20_OneOutboundCall ==
    req.handler = "proxy"
    => /\ Len(calls) = 1
       /\ calls[1].service = ProxyService(req.family)
       /\ (pc = "responded" /\ down.kind = "transport_error") => resp.status = 500

C20_Witness ==
    /\ ProxyResponded
    /\ req.family = "ifc"
    /\ req.method = "POST"
    /\ down.kind = "transport_error"
    /\ down.error = "ReadTimeout"
    /\ Len(calls) = 1

-----------------------------------------------------------------------------
(* Properties of POST /api/ifc/parse *)

CostCallFailed(d) ==
    \/ d.kind = "transport_error"
    \/ d.kind = "response" /\ d.status # 200
    \/ d.kind = "response" /\ d.status = 200 /\ ~JsonLoads(d.text).ok

\* C4: once the parse call has succeeded, a failed cost call (transport error,
\* timeout, status other than 200, undecodable body) never fails the response:
\* it is a 200 carrying the parsed elements, their count, costs null and
\* costs_calculated false.
C4_CostFailureSwallowed ==
    (pc = "responded" /\ req.handler = "parse_ifc" /\ Len(calls) = 2
        /\ CostCallFailed(down))
    => /\ resp.status = 200 /\ resp.kind = "json"
       /\ resp.body.elements = calls[2].json
       /\ (parsed.parse_data.t = "dict" /\ parsed.parse_data.has_elements)
            => resp.body.elements = parsed.parse_data.v
       /\ parsed.parse_data.t = "list" => resp.body.elements = parsed.parse_data.v
       /\ resp.body.elements.t = "list"
            => resp.body.element_count = Len(resp.body.elements.items)
       /\ resp.body.costs = None
       /\ resp.body.costs_calculated = FALSE

C4_Witness ==
    /\ pc = "responded"
    /\ req.handler = "parse_ifc"
    /\ Len(calls) = 2
    /\ down.kind = "response"
    /\ down.status = 503
    /\ resp.status = 200
    /\ resp.body.elements = ListValue(<<"e1", "e2">>)
    /\ resp.body.element_count = 2
    /\ resp.body.costs_calculated = FALSE

ParseIfcResponded == pc = "responded" /\ req.handler = "parse_ifc"

\* the parser answered in its own format: an object whose "elements" is a list
ValidFileParsed ==
    /\ resp.kind = "json"
    /\ parsed.parse_data.t = "dict"
    /\ parsed.parse_data.has_elements
    /\ parsed.parse_data.v.t = "list"

\* the cost service, where it was called, answered 200 with a non-null JSON body
CostServiceHealthy ==
    Len(calls) = 2
    => /\ down.kind = "response"
       /\ down.status = 200
       /\ JsonLoads(down.text).ok
       /\ JsonLoads(down.text).value # None

\* C12 (as claimed): with a valid file, calculate_costs = true and a healthy
\* cost service, the response has costs_calculated true and costs non-null.
C12_CostsCalculated ==
    (ParseIfcResponded /\ req.calculate_costs /\ ValidFileParsed /\ CostServiceHealthy)
    => (resp.body.costs_calculated /\ resp.body.costs # None)

\* C12 (amended): with a valid file for which the parser returns at least one
\* element, calculate_costs = true and a healthy cost service, the cost call is
\* made and the response has costs_calculated true and the service's costs.
C12_CostsCalculatedForElements ==
    (ParseIfcResponded /\ req.calculate_costs /\ ValidFileParsed /\ CostServiceHealthy
        /\ parsed.parse_data.v.items # <<>>)
    => /\ Len(calls) = 2
       /\ resp.status = 200
       /\ resp.body.costs_calculated
       /\ resp.body.costs # None
       /\ resp.body.costs = JsonLoads(down.text).value

C12_Witness ==
    /\ ParseIfcResponded
    /\ req.calculate_costs
    /\ ValidFileParsed
    /\ parsed.parse_data.v.items = <<"e2", "e1">>
    /\ Len(calls) = 2
    /\ down.status = 200
    /\ resp.body.costs_calculated
    /\ resp.body.costs = "{\"total\":1}"

ParseFailed(d) ==
    d.kind = "transport_error" \/ ~(d.status \in 200..299) \/ ~d.decodes

NonEmptyElements(data) ==
    \/ data.t = "dict" /\ data.has_elements
         /\ ~(data.v \in {ListValue(<<>>), NullValue})
    \/ data.t = "list" /\ data.v.items # <<>>

\* C13: the cost call is issued only after the parse call has returned
\* successfully, and only when calculate_costs is true and the parsed elements
\* are non-empty; when the parse call fails (transport error, timeout, non-2xx
\* status, undecodable body) no cost call is issued and the answer is HTTP 500.
C13_CostCallOnlyAfterParse ==
    [][/\ (pc = "idle" /\ req'.handler = "parse_ifc")
            => (Len(calls') = 1 /\ calls'[1].service = "ifc_parser_url")
       /\ pc = "parse_wait"
            => /\ ParseFailed(down')
                    => (calls' = calls /\ pc' = "responded" /\ resp'.status = 500)
               /\ calls' # calls
                    => /\ ~ParseFailed(down')
                       /\ req.calculate_costs
                       /\ NonEmptyElements(down'.data)
                       /\ Len(calls') = 2
                       /\ calls'[2].service = "cost_calculator_url"
                       /\ pc' = "cost_wait"
       /\ (req.handler = "parse_ifc" /\ pc # "parse_wait")
            => (calls' = calls \/ pc' = "idle")
      ]_vars

C13_Witness ==
    /\ ParseIfcResponded
    /\ Len(calls) = 1
    /\ down.kind = "response"
    /\ down.status = 200
    /\ ~down.decodes
    /\ resp.status = 500

-----------------------------------------------------------------------------
(* Properties of the Route Dispatcher and the Aggregator *)

\* C5: dispatch to an unknown (unregistered) service name returns a Failure and
\* issues no Transport call.
C5_UnknownServiceNoCall ==
    /\ (req.handler = "route" /\ ~(req.route.service \in Registry))
        => (pc = "responded" /\ outcome.is_failure /\ Len(calls) = 0)
    /\ req.handler = "aggregate"
        => /\ \A j \in 1..Len(calls) : calls[j].service \in Registry
           /\ \A i \in 1..Len(tasks) :
                (tasks[i].state = "done" /\ ~(req.requests[i].service \in Registry))
                    => tasks[i].outcome.is_failure

C5_Witness ==
    /\ pc = "responded"
    /\ req.handler = "route"
    /\ req.route.service = "no-such-service"
    /\ req.route.method = "POST"
    /\ outcome.is_failure
    /\ outcome.error.cause = "unknown service"
    /\ calls = <<>>

AggregateResponded == pc = "responded" /\ req.handler = "aggregate"

\* C6: an aggregate whose n requests all succeed returns Success with a list of
\* exactly n results, result i being the downstream's answer to request i,
\* whatever the order in which the dispatches completed.
C6_ResultsInInputOrder ==
    (AggregateResponded /\ \A i \in 1..Len(tasks) : Succeeded(tasks[i]))
    => /\ ~outcome.is_failure
       /\ outcome.value.t = "list"
       /\ Len(outcome.value.items) = Len(req.requests)
       /\ \A i \in 1..Len(req.requests) :
            outcome.value.items[i] = JsonLoads(tasks[i].d.text).value
       /\ resp = Return(outcome.value)

C6_Witness ==
    /\ AggregateResponded
    /\ Len(req.requests) = 2
    /\ completed = <<2, 1>>
    /\ ~outcome.is_failure
    /\ outcome.value.items = <<"[]", "{\"pin\":1}">>

\* C7: an aggregate in which at least one request fails returns a single Failure
\* and exposes no result list: the answer is an error carrying only the failure
\* message, whatever succeeded before or after.
C7_AllOrNothing ==
    (AggregateResponded /\ \E i \in 1..Len(tasks) : Failed(tasks[i]))
    => /\ outcome.is_failure
       /\ outcome.value = NoValue
       /\ resp.kind = "http_exception"
       /\ resp.body = outcome.error

C7_Witness ==
    /\ AggregateResponded
    /\ Len(tasks) = 2
    /\ Succeeded(tasks[1])
    /\ Failed(tasks[2])
    /\ outcome.is_failure
    /\ resp.kind = "http_exception"

\* C8: a failed aggregate returns the Failure of the first failing dispatch,
\* annotated with the index and service of that request, and the endpoint
\* answers 500 with that message, also when several requests fail and complete
\* in another order than the input order.
C8_FirstFailureReported ==
    (AggregateResponded /\ outcome.is_failure)
    => \E k \in 1..Len(tasks) :
          /\ Failed(tasks[k])
          /\ \A j \in 1..(k - 1) : Succeeded(tasks[j])
          /\ outcome.error.index = k
          /\ outcome.error.service = req.requests[k].service
          /\ outcome.error = [tasks[k].outcome.error EXCEPT !.index = k]
          /\ resp = HTTPException(500, outcome.error)

C8_Witness ==
    /\ AggregateResponded
    /\ Len(tasks) = 2
    /\ completed = <<2, 1>>
    /\ Failed(tasks[1])
    /\ Failed(tasks[2])
    /\ tasks[1].outcome.error.cause # tasks[2].outcome.error.cause
    /\ outcome.error.index = 1
    /\ resp.status = 500

RouteResponded == pc = "responded" /\ req.handler = "route"

\* C14: a dispatch for a resolvable service issues exactly one Transport call:
\* none is repeated after a transport failure, a timeout or a non-2xx answer,
\* and none is left out because an equal request was already dispatched.
C14_OneTransportCall ==
    /\ (req.handler = "route" /\ req.route.service \in Registry)
        => /\ Len(calls) = 1
           /\ calls[1].service = req.route.service
           /\ calls[1].method = req.route.method
           /\ calls[1].endpoint = req.route.endpoint
    /\ req.handler = "aggregate"
        => LET resolvable == {i \in 1..Len(req.requests) :
                                 req.requests[i].service \in Registry}
           IN  /\ Len(calls) = Cardinality(resolvable)
               /\ \A i \in resolvable :
                    Cardinality({j \in 1..Len(calls) :
                                    calls[j].service = req.requests[i].service})
                    = Cardinality({k \in resolvable :
                                    req.requests[k].service = req.requests[i].service})

C14_Witness ==
    /\ AggregateResponded
    /\ Len(req.requests) = 2
    /\ req.requests[1] = req.requests[2]
    /\ req.requests[1].service = "3d-data"
    /\ tasks[1].state = "done"
    /\ tasks[1].d.kind = "transport_error"
    /\ Len(calls) = 2

\* the downstream behaviours that are failures of a dispatch to a registered service
DownstreamFailure(d) ==
    \/ d.kind = "transport_error"
    \/ d.kind = "response" /\ ~(d.status \in 200..299)
    \/ d.kind = "response" /\ d.status \in 200..299 /\ ~JsonLoads(d.text).ok

\* C15: Dispatcher and Aggregator return an Outcome for every downstream
\* behaviour: an unknown service, a transport failure, a non-2xx response and a
\* 2xx response whose body is not valid JSON each yield Failure, and nothing is
\* thrown past the handler (the answer is never the framework's own 500).
C15_FailureNotCrash ==
    /\ RouteResponded
        => /\ resp.kind \in {"json", "http_exception"}
           /\ (~(req.route.service \in Registry) \/ DownstreamFailure(down))
                => (outcome.is_failure /\ resp.kind = "http_exception")
    /\ req.handler = "aggregate"
        => /\ \A i \in 1..Len(tasks) :
                (tasks[i].state = "done"
                    /\ (~(req.requests[i].service \in Registry)
                            \/ DownstreamFailure(tasks[i].d)))
                => tasks[i].outcome.is_failure
           /\ pc = "responded" => resp.kind \in {"json", "http_exception"}
           /\ (pc = "responded" /\ \E i \in 1..Len(tasks) : Failed(tasks[i]))
                => outcome.is_failure

C15_Witness ==
    /\ RouteResponded
    /\ req.route.service = "cost-calculator"
    /\ down.kind = "response"
    /\ down.status = 200
    /\ down.text = "<html>"
    /\ outcome.is_failure
    /\ resp.kind = "http_exception"

\* an Outcome is Success(value) or Failure(message), and nothing else
WellFormedOutcome(o) ==
    \/ o.is_failure /\ o.value = NoValue /\ o.error # NoMessage
    \/ ~o.is_failure /\ o.value # NoValue /\ o.error = NoMessage

\* C16: every Outcome produced by a dispatch or an aggregate is exactly one of
\* Success(value) and Failure(message): a failure carries a message and no
\* value, a success a value and no message.
C16_OutcomeIsTaggedUnion ==
    /\ (pc = "responded" /\ req.handler \in {"route", "aggregate"})
        => WellFormedOutcome(outcome)
    /\ req.handler = "aggregate"
        => \A i \in 1..Len(tasks) :
              tasks[i].state = "done" => WellFormedOutcome(tasks[i].outcome)

C16_Witness ==
    /\ AggregateResponded
    /\ Len(tasks) = 2
    /\ Succeeded(tasks[1])
    /\ tasks[2].state = "done"
    /\ tasks[2].d.status = 503
    /\ outcome.is_failure
    /\ outcome.value = NoValue
    /\ outcome.error.index = 2

\* C17: POST /api/gateway/route answers with the downstream JSON value when the
\* dispatch Outcome is Success and with status 500 whose detail is the
\* Outcome's failure message when it is Failure; no other status is produced.
C17_RouteAnswer ==
    RouteResponded
    => /\ resp.status \in {200, 500}
       /\ IF outcome.is_failure
          THEN /\ resp.kind = "http_exception"
               /\ resp.status = 500
               /\ resp.body = outcome.error
          ELSE /\ resp.kind = "json"
               /\ resp.status = 200
               /\ resp.body = outcome.value
               /\ resp.body.text = JsonLoads(down.text).value

C17_Witness ==
    /\ RouteResponded
    /\ req.route.service = "3d-data"
    /\ down.kind = "response"
    /\ down.status = 404
    /\ outcome.is_failure
    /\ resp.status = 500
    /\ resp.body.status = 404

-----------------------------------------------------------------------------
(* Properties of project lookups *)

\* C18: a lookup of a project id that does not exist answers 404 both at the
\* project service (GET /api/projects/{project_id}) and through the gateway's
\* typed endpoint GET /api/projects/{project_id}.
C18_UnknownProjectIs404 ==
    /\ (pc = "responded" /\ req.handler = "projects.get_project"
            /\ ~(req.project_id \in DOMAIN projects))
        => resp.status = 404
    /\ (pc = "responded" /\ req.handler = "get_project"
            /\ down.kind = "response" /\ down.status = 404)
        => resp.status = 404

-----------------------------------------------------------------------------
(* Properties of the 3D data service *)

\* C21: delete_view is an idempotent delete: for every view id, whether or not
\* the view exists, it returns success and the router never answers 404;
\* afterwards the id is absent from the view store and every other view is
\* unchanged, so that repeating the call gives the same result and state.
C21_DeleteViewIdempotent ==
    [][served'.op = "delete_view"
        => /\ ~served'.is_failure
           /\ served'.status = 200
           /\ ~(served'.args.view_id \in DOMAIN views')
           /\ views' # views
                => /\ DOMAIN views' = DOMAIN views \ {served'.args.view_id}
                   /\ \A k \in DOMAIN views' : views'[k] = views[k]
           /\ ~(served'.args.view_id \in DOMAIN views) => views' = views
      ]_vars

C21_Witness ==
    /\ served.op = "delete_view"
    /\ served.args.view_id = "v1"
    /\ ~served.is_failure
    /\ DOMAIN views = {"v2"}

\* C26: after any sequence of create_view, update_view and delete_view calls,
\* with any caller-supplied data (also data with the keys id or project_id),
\* every view stored under key k has its id field equal to k and keeps the
\* project_id it was created with.
C26_ViewIdentityKept ==
    [][\A k \in DOMAIN views' :
          /\ views'[k].id = k
          /\ k \in DOMAIN views => views'[k].project_id = views[k].project_id
          /\ ~(k \in DOMAIN views)
                => (served'.op = "create_view"
                    /\ views'[k].project_id = served'.args.project_id)
      ]_vars

\* C22: delete_pin(project_id, element_id) returns Failure (404 at the router)
\* exactly when no pin list was ever created for project_id, and success
\* otherwise, whether or not the element is pinned; after a success no pin of
\* that element remains in the project, the other pins of the project keep
\* their relative order, and the pins of other projects are unchanged.
C22_DeletePin ==
    [][/\ DOMAIN pins \subseteq DOMAIN pins'
       /\ DOMAIN pins' # DOMAIN pins => served'.op = "create_pin"
       /\ served'.op = "delete_pin"
            => LET p == served'.args.project_id
                   e == served'.args.element_id
               IN  /\ served'.is_failure <=> ~(p \in DOMAIN pins)
                   /\ served'.is_failure => (served'.status = 404 /\ pins' = pins)
                   /\ ~served'.is_failure
                        => /\ served'.status = 200
                           /\ DOMAIN pins' = DOMAIN pins
                           /\ \A i \in 1..Len(pins'[p]) : pins'[p][i].element_id # e
                           /\ pins'[p] = SelectSeq(pins[p], LAMBDA x : x.element_id # e)
                           /\ \A q \in DOMAIN pins \ {p} : pins'[q] = pins[q]
      ]_vars

C22_Witness ==
    /\ served.op = "delete_pin"
    /\ served.args = [project_id |-> "p1", element_id |-> "e1"]
    /\ ~served.is_failure
    /\ "p1" \in DOMAIN pins
    /\ Len(pins["p1"]) = 2
    /\ pins["p1"][1].color = "red"
    /\ pins["p1"][2].color = "blue"

\* C28: a successful update_pin(project_id, element_id, color) leaves every pin
\* of that element in that project with the new color, so that get_pins never
\* reports two different colors for one element, also when create_pin was
\* called twice for the element.
C28_OneColorPerElement ==
    /\ (served.op = "update_pin" /\ ~served.is_failure)
        => \A i \in 1..Len(pins[served.args.project_id]) :
              pins[served.args.project_id][i].element_id = served.args.element_id
              => pins[served.args.project_id][i].color = served.args.color
    /\ served.op = "get_pins"
        => \A i, j \in 1..Len(served.value) :
              served.value[i].element_id = served.value[j].element_id
              => served.value[i].color = served.value[j].color

\* a stored selection as it was before the step, if it was there
WasStored(p, i) == p \in DOMAIN selections /\ i <= Len(selections[p])

\* C24: the visible flag of a selection is true exactly when the last
\* successful show_selection or hide_selection call naming it was
\* show_selection; isolate_selection sets isolated to true and no operation
\* resets it; each of the three calls naming an unknown selection id returns
\* Failure (404 at the router) and changes no selection.
C24_SelectionFlags ==
    [][/\ \A p \in DOMAIN selections' : \A i \in 1..Len(selections'[p]) :
            LET new == selections'[p][i]
                named == /\ served'.op \in {"show_selection", "hide_selection",
                                            "isolate_selection"}
                         /\ ~served'.is_failure
                         /\ new.id = served'.args.selection_id
            IN  /\ (named /\ served'.op = "show_selection") => new.visible = "True"
                /\ (named /\ served'.op = "hide_selection") => new.visible # "True"
                /\ (named /\ served'.op = "isolate_selection") => new.isolated = "True"
                /\ ~(named /\ served'.op \in {"show_selection", "hide_selection"})
                     => IF WasStored(p, i)
                        THEN new.visible = selections[p][i].visible
                        ELSE new.visible # "True"
                /\ (WasStored(p, i) /\ selections[p][i].isolated = "True")
                     => new.isolated = "True"
       /\ served'.op \in {"show_selection", "hide_selection", "isolate_selection"}
            => /\ served'.is_failure
                    <=> (Places(selections, served'.args.selection_id) = {})
               /\ served'.is_failure => (served'.status = 404 /\ selections' = selections)
      ]_vars

-----------------------------------------------------------------------------
(* Properties of the calculation engine *)

\* C23: calculate_volume with fewer than 4 points returns Failure and stores
\* no measurement; with 4 or more points it returns success and appends exactly
\* one measurement of type volume to the project's list; get_measurements
\* returns the measurements created for the project, in creation order, and
\* none of another project.
C23_VolumeMeasurements ==
    [][/\ served'.op = "calculate_volume"
            => LET p == served'.args.project_id
               IN  /\ served'.is_failure <=> Len(served'.args.points) < 4
                   /\ served'.is_failure => measurements' = measurements
                   /\ ~served'.is_failure
                        => /\ served'.status = 200
                           /\ served'.value.type = "volume"
                           /\ served'.value.project_id = p
                           /\ DOMAIN measurements' = DOMAIN measurements \cup {p}
                           /\ measurements'[p]
                                = Append(IF p \in DOMAIN measurements
                                         THEN measurements[p] ELSE <<>>, served'.value)
                           /\ \A q \in DOMAIN measurements \ {p} :
                                measurements'[q] = measurements[q]
       /\ \A p \in DOMAIN measurements :
            /\ p \in DOMAIN measurements'
            /\ Len(measurements[p]) <= Len(measurements'[p])
            /\ SubSeq(measurements'[p], 1, Len(measurements[p])) = measurements[p]
       /\ \A p \in DOMAIN measurements' : \A i \in 1..Len(measurements'[p]) :
            measurements'[p][i].project_id = p
       /\ served'.op = "get_measurements"
            => /\ ~served'.is_failure
               /\ served'.value = IF served'.args.project_id \in DOMAIN measurements'
                                  THEN measurements'[served'.args.project_id]
                                  ELSE <<>>
      ]_vars

C23_Witness ==
    /\ served.op = "get_measurements"
    /\ served.args.project_id = "p1"
    /\ Len(served.value) = 2
    /\ served.value[1].type = "dimension"
    /\ served.value[2].type = "volume"
    /\ Len(served.value[2].points) = 4

-----------------------------------------------------------------------------
(* Properties of the project store *)

\* C27: for every project data accepted by create_project (also data whose
\* metadata has the key project_id), get_project called with the project_id
\* field of the returned project succeeds and returns that project; get_project
\* with an id that create_project never returned fails.
C27_ProjectRoundTrip ==
    [][(pc = "idle" /\ pc' = "responded" /\ req'.handler = "projects.get_project")
        => /\ (served.op = "create_project"
                    /\ req'.project_id = served.value.project_id)
                => resp' = Return(ProjectJson(served.value))
           /\ ~(req'.project_id \in {projects[k].project_id : k \in DOMAIN projects})
                => resp'.status = 404
      ]_vars

-----------------------------------------------------------------------------
(* Properties of the three services together *)

\* C25: every operation of VisualizationService, ProjectService and
\* CalculationService that returns Failure leaves the stores of views, pins,
\* selections, projects, comments and measurements as they were before the call.
C25_FailureLeavesStores ==
    [][/\ (served'.op # "none" /\ served'.is_failure)
            => UNCHANGED <<views, pins, selections, projects, comments, measurements>>
       /\ (pc = "idle" /\ pc' = "responded" /\ req'.handler = "projects.get_project"
                /\ resp'.status = 404)
            => UNCHANGED <<views, pins, selections, projects, comments, measurements>>
      ]_vars

C25_Witness ==
    /\ served.op = "update_comment"
    /\ served.is_failure
    /\ served.status = 404
    /\ served.args.project_id \in DOMAIN comments
    /\ Len(comments[served.args.project_id]) = 1
    /\ comments[served.args.project_id][1].id # served.args.comment_id

-----------------------------------------------------------------------------
(* Properties of get_container *)

\* C29: get_container creates at most one Container in the lifetime of the
\* process and returns that same instance on every call, for every interleaving
\* of the concurrent request handlers that call it.
C29_OneContainer ==
    /\ Len(created) <= 1
    /\ \A v, w \in Workers :
          (workers[v].returned # None /\ workers[w].returned # None)
              => workers[v].returned = workers[w].returned

-----------------------------------------------------------------------------
(* Properties of the gateway's routing *)

\* the inbound request is the typed endpoint with this method and path
Inbound(method, path) == matched.method = method /\ matched.path = path

\* the inbound request is GET /api/projects/{project_id}
InboundGetProject ==
    /\ matched.method = "GET"
    /\ Len(matched.path) = 2
    /\ matched.path[1] = "projects"
    /\ matched.path[2] # ""

\* the inbound request is one of the typed endpoints that a wildcard also matches
InboundTyped ==
    \/ Inbound("POST", <<"ifc", "parse">>)
    \/ Inbound("GET", <<"ifc", "elements">>)
    \/ Inbound("POST", <<"calculations", "static">>)
    \/ Inbound("POST", <<"calculations", "strength">>)
    \/ Inbound("POST", <<"visualization", "scene">>)
    \/ InboundGetProject

\* C30: an inbound request whose method and path match a typed endpoint and a
\* wildcard proxy family is handled by the typed endpoint, never by the
\* wildcard proxy; every other method and path under /api/visualization/,
\* /api/projects/, /api/calculations/ and /api/ifc/ is handled by the wildcard
\* proxy of its prefix and by no other handler.
C30_TypedBeforeWildcard ==
    matched.handler # "none"
        => /\ Inbound("POST", <<"ifc", "parse">>) => matched.handler = "parse_ifc"
           /\ Inbound("GET", <<"ifc", "elements">>) => matched.handler = "get_elements"
           /\ Inbound("POST", <<"calculations", "static">>)
                => matched.handler = "calculate_static"
           /\ Inbound("POST", <<"calculations", "strength">>)
                => matched.handler = "calculate_strength"
           /\ Inbound("POST", <<"visualization", "scene">>)
                => matched.handler = "generate_scene"
           /\ InboundGetProject => matched.handler = "get_project"
           /\ (~InboundTyped /\ Len(matched.path) >= 2 /\ matched.path[1] \in Families)
                => matched.handler = "proxy_" \o matched.path[1]

C30_Witness ==
    /\ matched.method = "GET"
    /\ matched.path = <<"projects", "p1">>
    /\ matched.handler = "get_project"
    /\ Match(Routes[12], "GET", <<"projects", "p1">>) = "FULL"
    /\ Route("DELETE", <<"projects", "p1">>) = "proxy_projects"

====
